---------------------------- MODULE Spec2Model ----------------------------
(***************************************************************************)
(* A model of graph.py: the Node / NAND / Graph classes and parse_input.   *)
(*                                                                         *)
(* Python objects live in a heap: a Node instance is an index into `heap`, *)
(* and heap[n] is the value the instance holds (Node._value, never         *)
(* reassigned).  Two distinct indexes with the same value are two distinct *)
(* instances with equal values; Node defines neither __eq__ nor __hash__,  *)
(* so Python sets and dicts of Nodes are keyed by instance (index).        *)
(*                                                                         *)
(* A text is a sequence of one-character strings.                          *)
(*                                                                         *)
(* The specifications share the definitions of the classes:              *)
(*   GateSpec  - one NAND gate, its output read and reset repeatedly;      *)
(*   GraphSpec - one Graph driven through add_node / add_edge directly;    *)
(*   Spec      - one call of parse_input, one loop iteration per step.     *)
(* GraphOrParseSpec joins the last two, and DriverSpec calls parse_input   *)
(* several times in a row, as the module's driver does.                    *)
(***************************************************************************)
EXTENDS Integers, Sequences, FiniteSets, TLC

VARIABLES
    heap,           \* Seq(Int): the Node instances allocated so far, by index
    gate,           \* GateSpec: the NAND instance [input_a, input_b, _output]
    gateLog,        \* GateSpec: history of the reads and resets of `gate`
    graph,          \* the Graph instance [_nodes, _edges]
    last,           \* GraphSpec: the last call made on `graph` and its outcome
    given,          \* parse_input: the argument it was called with
    input_string,   \* parse_input: the text buffer
    match,          \* parse_input: the result of the last re.search
    pc,             \* parse_input: "loop" | "done" | "raised" ("gate" and
                    \* "graph" in the other two specifications)
    output,         \* parse_input: the returned result (None until it returns)
    exc,            \* parse_input: the exception that escaped ("" if none)
    history,        \* parse_input: the gates built so far, one per iteration
    returned        \* the Graphs returned by the earlier calls of parse_input

vars ==
    <<heap, gate, gateLog, graph, last, given, input_string, match, pc, output,
      exc, history, returned>>

(***************************************************************************)
(* Bounds of the model.                                                    *)
(***************************************************************************)
\* GateSpec: both inputs range over -MaxGateVal..MaxGateVal and WideValues.
MaxGateVal == 17
\* GateSpec: reads of NAND.output between two resets.
MaxReads == 3
\* GateSpec: calls of NAND.reset.
MaxResets == 2
\* GraphSpec: the Node instances the caller holds.
MaxNodes == 3
\* GraphSpec: the values those instances hold are 1..MaxVal.
MaxVal == 2
\* Spec: every text of at most MaxLen characters over Alphabet is an input.
MaxLen == 6
\* Spec: the operands of the flat generated expressions are 1..MaxOperand.
MaxOperand == 2
\* Spec: the nesting depth of the generated expressions.
MaxDepth == 2
\* DriverSpec: the number of calls of parse_input in a row.
MaxCalls == 2

\* Python's None, for NAND._output and for the result not yet returned.
None == 0

(***************************************************************************)
(* Python integer arithmetic (arbitrary precision, two's complement).      *)
(***************************************************************************)
abs(x) == IF x < 0 THEN -x ELSE x

\* ~x
invert(x) == -x - 1

\* a & b on unbounded two's-complement integers: 0 and -1 are the two bit
\* patterns that are their own half, every other value is halved (floor).
RECURSIVE and_(_, _)
and_(a, b) ==
    IF a = 0 \/ b = 0 THEN 0
    ELSE IF a = -1 THEN b
    ELSE IF b = -1 THEN a
    ELSE 2 * and_(a \div 2, b \div 2)
         + (IF a % 2 = 1 /\ b % 2 = 1 THEN 1 ELSE 0)

(***************************************************************************)
(* class Node                                                              *)
(***************************************************************************)
\* Node(value): allocates a new instance; `ref` is the new instance.
Node(h, value) == [heap |-> Append(h, value), ref |-> Len(h) + 1]

(***************************************************************************)
(* class NAND                                                              *)
(***************************************************************************)
NAND(input_a, input_b) ==
    [input_a |-> input_a, input_b |-> input_b, _output |-> None]

\* A bug the width loop could have: widening by 4 bits instead of doubling.
RECURSIVE widen_by_four(_, _)
widen_by_four(and_result, bits) ==
    IF abs(and_result) < 2 ^ bits THEN bits
    ELSE widen_by_four(and_result, bits + 4)

\* A bug the width loop could have: stopping when abs(and_result) equals
\* 2^bits, which leaves a value of 0.
RECURSIVE widen_inclusive(_, _)
widen_inclusive(and_result, bits) ==
    IF abs(and_result) <= 2 ^ bits THEN bits
    ELSE widen_inclusive(and_result, bits * 2)

\* The `while True` loop of _compute: the first width, doubling from `bits`,
\* whose field holds abs(and_result).
RECURSIVE widen(_, _)
widen(and_result, bits) ==
    IF abs(and_result) < 2 ^ bits THEN bits
    ELSE widen(and_result, bits * 2)

\* A bug _compute could have: no `if self._output is None` guard, so every
\* read computes again and allocates a new output Node.
compute_unguarded(g, h) ==
    LET and_result == invert(and_(h[g.input_a], h[g.input_b]))
        bits       == widen(and_result, 4)
        value      == 2 ^ bits - abs(and_result)
        n          == Node(h, value)
    IN  [gate |-> [g EXCEPT !._output = n.ref], heap |-> n.heap]

\* NAND._compute: fills the cache when it is empty, else does nothing.
_compute(g, h) ==
    IF g._output = None
    THEN LET and_result == invert(and_(h[g.input_a], h[g.input_b]))
             bits       == widen(and_result, 4)
             value      == 2 ^ bits - abs(and_result)
             n          == Node(h, value)
         IN  [gate |-> [g EXCEPT !._output = n.ref], heap |-> n.heap]
    ELSE [gate |-> g, heap |-> h]

\* The NAND.output property: computes if needed, returns the cached Node.
NAND_output(g, h) ==
    LET c == _compute(g, h)
    IN  [gate |-> c.gate, heap |-> c.heap, ret |-> c.gate._output]

\* NAND.reset
reset(g) == [g EXCEPT !._output = None]

(***************************************************************************)
(* class Graph                                                             *)
(***************************************************************************)
\* Graph(): _nodes is a set of Node instances, _edges a dict keyed by Node
\* instance whose values are sets of Node instances.
Graph == [_nodes |-> {}, _edges |-> [n \in {} |-> {}]]

\* A bug has_node could have: looking for the instance, not for its value.
has_node_same_instance(g, h, node) == node \in g._nodes

\* Graph.has_node: a scan of the stored vertices comparing values.
has_node(g, h, node) == \E i \in g._nodes : h[i] = h[node]

\* Graph.get_node: the stored vertices the scan can return for `value` (the
\* scan returns the first one met, in the set's iteration order).  The empty
\* set stands for ValueError('No Node exists with the given value').
get_node(g, h, value) == {node \in g._nodes : h[node] = value}

\* A bug add_node could have: with ignore_errors set, storing the instance
\* although its value is already held.
add_node_always(g, h, node, ignore_errors) ==
    IF has_node(g, h, node) /\ ignore_errors = FALSE
    THEN [graph |-> g, err |-> "ValueError: Node already exists"]
    ELSE [graph |-> [_nodes |-> g._nodes \cup {node},
                     _edges |-> [n \in DOMAIN g._edges \cup {node} |->
                                   IF n = node THEN {} ELSE g._edges[n]]],
          err |-> ""]

\* A bug add_node could have: with ignore_errors set, inserting the node
\* anew, which re-initialises its destinations.
add_node_resetting(g, h, node, ignore_errors) ==
    IF has_node(g, h, node) /\ ignore_errors = FALSE
    THEN [graph |-> g, err |-> "ValueError: Node already exists"]
    ELSE [graph |-> [_nodes |-> g._nodes \cup {node},
                     _edges |-> [n \in DOMAIN g._edges \cup {node} |->
                                   IF n = node THEN {} ELSE g._edges[n]]],
          err |-> ""]

\* Graph.add_node
add_node(g, h, node, ignore_errors) ==
    IF has_node(g, h, node)
    THEN [graph |-> g,
          err |-> IF ignore_errors = FALSE
                  THEN "ValueError: Node already exists" ELSE ""]
    ELSE [graph |-> [_nodes |-> g._nodes \cup {node},
                     _edges |-> [n \in DOMAIN g._edges \cup {node} |->
                                   IF n = node THEN {} ELSE g._edges[n]]],
          err |-> ""]

\* A bug add_edge could have: inserting a missing destination instead of
\* rejecting the edge.
add_edge_implicit(g, h, edge) ==
    LET source      == edge.input_a
        destination == edge.input_b
    IN  IF ~ has_node(g, h, source)
        THEN [graph |-> g, err |-> "ValueError: Nodes not present in the Graph!"]
        ELSE IF source \notin DOMAIN g._edges
        THEN [graph |-> g, err |-> "KeyError"]
        ELSE [graph |-> [_nodes |-> g._nodes \cup
                                      (IF has_node(g, h, destination)
                                       THEN {} ELSE {destination}),
                         _edges |-> [g._edges EXCEPT ![source] = @ \cup {destination}]],
              err |-> ""]

\* Graph.add_edge.  self.edges[source] is a dict lookup by instance: it raises
\* KeyError when `source` is not itself a key, whatever its value.
add_edge(g, h, edge) ==
    LET source      == edge.input_a
        destination == edge.input_b
    IN  IF ~ (has_node(g, h, source) /\ has_node(g, h, destination))
        THEN [graph |-> g, err |-> "ValueError: Nodes not present in the Graph!"]
        ELSE IF source \notin DOMAIN g._edges
        THEN [graph |-> g, err |-> "KeyError"]
        ELSE IF destination \notin g._edges[source]
        THEN [graph |-> [g EXCEPT !._edges[source] = @ \cup {destination}],
              err |-> ""]
        ELSE [graph |-> g, err |-> ""]

(***************************************************************************)
(* Text: int(), str(), str.split, str.replace and re.search.               *)
(***************************************************************************)
DigitChars == <<"0", "1", "2", "3", "4", "5", "6", "7", "8", "9">>

IsDigit(c) == \E d \in 1 .. 10 : DigitChars[d] = c

DigitValue(c) == (CHOOSE d \in 1 .. 10 : DigitChars[d] = c) - 1

\* Whether int(x) returns: of the texts over digits, '.', '!', '(' and ')'
\* int() accepts the non-empty runs of digits and raises ValueError on the
\* rest, the empty text included.
int_accepts(x) == Len(x) > 0 /\ \A i \in 1 .. Len(x) : IsDigit(x[i])

\* int(x) for a text int() accepts; leading zeros do not count.
RECURSIVE int(_)
int(x) ==
    IF Len(x) = 0 THEN 0
    ELSE 10 * int(SubSeq(x, 1, Len(x) - 1)) + DigitValue(x[Len(x)])

\* str(v) for an integer v.
RECURSIVE str(_)
str(v) ==
    IF v < 0 THEN <<"-">> \o str(-v)
    ELSE IF v < 10 THEN <<DigitChars[v + 1]>>
    ELSE str(v \div 10) \o <<DigitChars[(v % 10) + 1]>>

\* x.split(sep) for a one-character sep: always at least one piece.
RECURSIVE split(_, _)
split(x, sep) ==
    IF \A i \in 1 .. Len(x) : x[i] # sep THEN <<x>>
    ELSE LET i == CHOOSE j \in 1 .. Len(x) :
                     x[j] = sep /\ \A k \in 1 .. j - 1 : x[k] # sep
         IN  <<SubSeq(x, 1, i - 1)>> \o split(SubSeq(x, i + 1, Len(x)), sep)

\* x.replace(old, new) for a non-empty old: every occurrence, left to right,
\* without overlap.
RECURSIVE replace(_, _, _)
replace(x, old, new) ==
    IF Len(x) < Len(old) THEN x
    ELSE IF SubSeq(x, 1, Len(old)) = old
    THEN new \o replace(SubSeq(x, Len(old) + 1, Len(x)), old, new)
    ELSE <<x[1]>> \o replace(Tail(x), old, new)

\* The length of the run of digits of x that starts at position p.
RECURSIVE digit_run(_, _)
digit_run(x, p) ==
    IF p <= Len(x) /\ IsDigit(x[p]) THEN 1 + digit_run(x, p + 1) ELSE 0

\* nand_expression = r'!\((\d*).(\d*)\)' tried at position i with the first
\* group k characters long: '!', '(', k digits, ANY one character (the dot
\* of the pattern is not escaped), the longest run of digits, ')'.
match_with(x, i, k) ==
    LET q == i + 2 + k                      \* the character the dot takes
        m == digit_run(x, q + 1)
    IN  /\ q <= Len(x)
        /\ q + 1 + m <= Len(x)
        /\ x[q + 1 + m] = ")"

NoMatch == [start |-> 0, stop |-> 0, groups |-> << >>]

\* The match of nand_expression that starts at position i, if any: the
\* first group is greedy, so the longest k that lets the rest match wins.
match_at(x, i) ==
    IF ~ (i + 1 <= Len(x) /\ x[i] = "!" /\ x[i + 1] = "(") THEN NoMatch
    ELSE LET ks == {k \in 0 .. digit_run(x, i + 2) : match_with(x, i, k)}
         IN  IF ks = {} THEN NoMatch
             ELSE LET k == CHOOSE j \in ks : \A l \in ks : l <= j
                      q == i + 2 + k
                      m == digit_run(x, q + 1)
                  IN  [start  |-> i,
                       stop   |-> q + 1 + m,
                       groups |-> <<SubSeq(x, i + 2, i + 1 + k),
                                    SubSeq(x, q + 1, q + m)>>]

\* A different search: the rightmost match is the one returned.
re_search_last(x) ==
    LET starts == {i \in 1 .. Len(x) : match_at(x, i) # NoMatch}
    IN  IF starts = {} THEN NoMatch
        ELSE match_at(x, CHOOSE i \in starts : \A j \in starts : j <= i)

\* re.search(nand_expression, x): the leftmost match, or NoMatch (None).
re_search(x) ==
    LET starts == {i \in 1 .. Len(x) : match_at(x, i) # NoMatch}
    IN  IF starts = {} THEN NoMatch
        ELSE match_at(x, CHOOSE i \in starts : \A j \in starts : i <= j)

\* match.group()
group(x, mt) == SubSeq(x, mt.start, mt.stop)

(***************************************************************************)
(* class InvalidInputError                                                 *)
(***************************************************************************)
\* What `raise InvalidInputError(message)` propagates.  __init__ calls
\* super(InvalidInputError).__init__(message): an unbound super object is
\* re-initialised with a str where a type is required, which raises
\* TypeError before the InvalidInputError instance is ever raised.
InvalidInputError(message) == "TypeError: super() argument 1 must be type, not str"

(***************************************************************************)
(* parse_input                                                             *)
(***************************************************************************)
IntError == "ValueError: invalid literal for int() with base 10"

\* x.replace(old, new, 1): the first occurrence only.
RECURSIVE replace_first(_, _, _)
replace_first(x, old, new) ==
    IF Len(x) < Len(old) THEN x
    ELSE IF SubSeq(x, 1, Len(old)) = old
    THEN new \o SubSeq(x, Len(old) + 1, Len(x))
    ELSE <<x[1]>> \o replace_first(Tail(x), old, new)

\* A different substitution the loop could make: only the matched occurrence
\* is replaced (the match is the leftmost occurrence of its own text).
substitute_first(x, mt, value) == replace_first(x, group(x, mt), str(value))

\* Lines 285-287: every occurrence of the matched text is replaced by the
\* decimal text of the output value.
substitute(x, mt, value) == replace(x, group(x, mt), str(value))

\* A bug the terminal case could have: NAND instead of AND.
combine_nand(a, b) == invert(and_(a, b))

\* Line 297: the two residual operands are combined by a plain AND.
combine(a, b) == and_(a, b)

\* A bug the loop body could have: recording the gate's output as a
\* destination of its first input, a dataflow edge.
reduce_linking_output(x, mt, h, g, n1, n2) ==
    LET nand1 == NAND(n1, n2)
        g1    == add_node(g, h, n1, TRUE)
        g2    == add_node(g1.graph, h, n2, TRUE)
        g3    == add_edge(g2.graph, h, nand1)
        o     == NAND_output(nand1, h)
        g4    == add_node(g3.graph, o.heap, o.ret, TRUE)
        out   == CHOOSE n \in g4.graph._nodes : o.heap[n] = o.heap[o.ret]
    IN  [err |-> g3.err, heap |-> o.heap,
         graph |-> [g4.graph EXCEPT !._edges[n1] = @ \cup {out}],
         gate |-> o.gate,
         input_string |-> substitute(x, mt, o.heap[o.ret])]

\* A bug the loop body could have: adding the edge before its endpoints are
\* inserted.
reduce_edge_first(x, mt, h, g, n1, n2) ==
    LET nand1 == NAND(n1, n2)
        g3    == add_edge(g, h, nand1)
        g1    == add_node(g3.graph, h, n1, TRUE)
        g2    == add_node(g1.graph, h, n2, TRUE)
    IN  IF g3.err # ""
        THEN [err |-> g3.err, heap |-> h, graph |-> g3.graph, gate |-> nand1,
              input_string |-> x]
        ELSE LET o  == NAND_output(nand1, h)
                 g4 == add_node(g2.graph, o.heap, o.ret, TRUE)
             IN  [err |-> "", heap |-> o.heap, graph |-> g4.graph,
                  gate |-> o.gate,
                  input_string |-> substitute(x, mt, o.heap[o.ret])]

\* The body of the `while match` loop from line 278 on, for buffer x, heap h
\* and Graph g, with node1 and node2 already resolved to n1 and n2.  The
\* result names the exception that escapes, if one does.
reduce(x, mt, h, g, n1, n2) ==
    LET nand1 == NAND(n1, n2)
        g1    == add_node(g, h, n1, TRUE)
        g2    == add_node(g1.graph, h, n2, TRUE)
        g3    == add_edge(g2.graph, h, nand1)
    IN  IF g3.err # ""
        THEN [err |-> g3.err, heap |-> h, graph |-> g3.graph, gate |-> nand1,
              input_string |-> x]
        ELSE LET o  == NAND_output(nand1, h)
                 g4 == add_node(g3.graph, o.heap, o.ret, TRUE)
             IN  [err |-> "", heap |-> o.heap, graph |-> g4.graph,
                  gate |-> o.gate,
                  input_string |-> substitute(x, mt, o.heap[o.ret])]

\* A bug the finalisation could have: returning the first residual operand
\* and ignoring the second.
finalize_first(x) ==
    LET pieces == split(x, ".")
    IN  IF \E i \in 1 .. Len(pieces) : ~ int_accepts(pieces[i])
        THEN [err |-> IntError, output |-> None]
        ELSE IF Len(pieces) > 2
        THEN [err |-> InvalidInputError("Input is not in the expected format"),
              output |-> None]
        ELSE [err |-> "", output |-> int(pieces[1])]

\* Lines 291-299: the residual operands and the result.
finalize(x) ==
    LET pieces == split(x, ".")
    IN  IF \E i \in 1 .. Len(pieces) : ~ int_accepts(pieces[i])
        THEN [err |-> IntError, output |-> None]
        ELSE IF Len(pieces) > 2
        THEN [err |-> InvalidInputError("Input is not in the expected format"),
              output |-> None]
        ELSE IF Len(pieces) = 2
        THEN [err |-> "", output |-> combine(int(pieces[1]), int(pieces[2]))]
        ELSE [err |-> "", output |-> int(pieces[1])]

(***************************************************************************)
(* GateSpec: a gate over two Nodes; its output is read and reset.          *)
(***************************************************************************)
\* Values around the points where the width changes (16, 256, 65536).
WideValues ==
    {254, 255, 256, 257, 4095, 4096, 65534,
     -255, -256, -257, -258, -4096, -4097, -65535, -65536}

GateValues == (-MaxGateVal .. MaxGateVal) \cup WideValues

NoCall  == [op |-> "", a |-> None, b |-> None, ignore_errors |-> FALSE, err |-> ""]
NoLog   == [reads |-> << >>, resets |-> 0, prevRead |-> None, inputs |-> << >>]

GateInit ==
    /\ \E a \in GateValues, b \in GateValues :
          /\ heap = <<a, b>>
          /\ gateLog = [NoLog EXCEPT !.inputs = <<a, b>>]
    /\ gate = NAND(1, 2)
    /\ graph = Graph
    /\ last = NoCall
    /\ given = << >>
    /\ input_string = << >>
    /\ match = NoMatch
    /\ pc = "gate"
    /\ output = None
    /\ exc = ""
    /\ history = << >>
    /\ returned = << >>

\* x = gate.output
GateRead ==
    /\ pc = "gate"
    /\ Len(gateLog.reads) < MaxReads
    /\ LET r == NAND_output(gate, heap)
       IN  /\ gate' = r.gate
           /\ heap' = r.heap
           /\ gateLog' = [gateLog EXCEPT !.reads = Append(@, r.ret)]
    /\ UNCHANGED <<graph, last, given, input_string, match, pc, output, exc,
                   history, returned>>

\* gate.reset()
GateReset ==
    /\ pc = "gate"
    /\ gateLog.resets < MaxResets
    /\ gate' = reset(gate)
    /\ gateLog' = [gateLog EXCEPT
                     !.reads = << >>,
                     !.resets = @ + 1,
                     !.prevRead = IF gateLog.reads = << >> THEN @
                                  ELSE gateLog.reads[Len(gateLog.reads)]]
    /\ UNCHANGED <<heap, graph, last, given, input_string, match, pc, output,
                   exc, history, returned>>

GateNext == GateRead \/ GateReset

GateSpec == GateInit /\ [][GateNext]_vars

(***************************************************************************)
(* GraphSpec: a caller holding MaxNodes Node instances drives one Graph    *)
(* through add_node and add_edge; an exception a call raises reaches the   *)
(* caller, who goes on using the Graph.                                    *)
(***************************************************************************)
\* Instance i holds the value ((i - 1) mod MaxVal) + 1, so with more
\* instances than values some values are held by two instances.
Pool == [i \in 1 .. MaxNodes |-> ((i - 1) % MaxVal) + 1]

GraphInit ==
    /\ heap = Pool
    /\ graph = Graph
    /\ last = NoCall
    /\ gate = NAND(None, None)
    /\ gateLog = NoLog
    /\ given = << >>
    /\ input_string = << >>
    /\ match = NoMatch
    /\ pc = "graph"
    /\ output = None
    /\ exc = ""
    /\ history = << >>
    /\ returned = << >>

\* graph.add_node(node, ignore_errors)
CallAddNode ==
    /\ pc = "graph"
    /\ \E node \in DOMAIN heap, ignore_errors \in BOOLEAN :
          LET r == add_node(graph, heap, node, ignore_errors)
          IN  /\ graph' = r.graph
              /\ last' = [op |-> "add_node", a |-> node, b |-> None,
                          ignore_errors |-> ignore_errors, err |-> r.err]
    /\ UNCHANGED <<heap, gate, gateLog, given, input_string, match, pc, output,
                   exc, history, returned>>

\* graph.add_edge(NAND(a, b))
CallAddEdge ==
    /\ pc = "graph"
    /\ \E a \in DOMAIN heap, b \in DOMAIN heap :
          LET r == add_edge(graph, heap, NAND(a, b))
          IN  /\ graph' = r.graph
              /\ last' = [op |-> "add_edge", a |-> a, b |-> b,
                          ignore_errors |-> FALSE, err |-> r.err]
    /\ UNCHANGED <<heap, gate, gateLog, given, input_string, match, pc, output,
                   exc, history, returned>>

GraphNext == CallAddNode \/ CallAddEdge

GraphSpec == GraphInit /\ [][GraphNext]_vars

(***************************************************************************)
(* Spec: one call of parse_input(input_string).                            *)
(***************************************************************************)
Alphabet == {"1", ".", "!", "(", ")"}

\* The texts of exactly n characters over Alphabet.
RECURSIVE Texts(_)
Texts(n) ==
    IF n = 0 THEN {<< >>}
    ELSE {t \o <<c>> : t \in Texts(n - 1), c \in Alphabet}

Nand(a, b) == <<"!", "(">> \o a \o <<".">> \o b \o <<")">>

OperandTexts == {str(v) : v \in 1 .. MaxOperand}

\* The terms of nesting depth at most d over the operands 1 and 2.
RECURSIVE Terms(_)
Terms(d) ==
    IF d <= 0 THEN {<<"1">>, <<"2">>}
    ELSE LET T == Terms(d - 1)
         IN  T \cup {Nand(a, b) : a \in T, b \in T}

\* One term of depth MaxDepth, two of depth MaxDepth - 1, or three operands.
NestedInputs ==
    LET T == Terms(MaxDepth - 1)
    IN  Terms(MaxDepth)
        \cup {a \o <<".">> \o b : a \in T, b \in T}
        \cup {a \o <<".">> \o b \o <<".">> \o c :
                a \in OperandTexts, b \in OperandTexts, c \in OperandTexts}

\* Operands with a leading zero, of two and three digits, and zero.
WideTexts == {<<"0">>, <<"0", "1">>, <<"1", "5">>, <<"2", "5", "5">>}

FlatInputs ==
    LET T == OperandTexts \cup WideTexts
    IN  {Nand(a, b) \o <<".">> \o Nand(c, d) : a \in T, b \in T, c \in T, d \in T}
        \cup {Nand(a, b) \o <<".">> \o c : a \in T, b \in T, c \in T}
        \cup {c \o <<".">> \o Nand(a, b) : a \in T, b \in T, c \in T}

\* INPUT_STRINGS of the module's driver, and '1.2.3'.
INPUT_STRINGS ==
    { <<"!", "(", "!", "(", "1", ".", "2", ")", ".", "3", ")">>,
      <<"!", "(", "1", ".", "2", ")", ".", "3">>,
      <<"!", "(", "1", "0", ".", "2", "0", ")", ".",
        "!", "(", "3", "0", ".", "4", "0", ")">>,
      <<"1", ".", "2", ".", "3">> }

\* The arguments parse_input is called with: every text of at most MaxLen
\* characters, and the generated expressions.
Init ==
    /\ \/ \E n \in 0 .. MaxLen : given \in Texts(n)
       \/ given \in NestedInputs \cup FlatInputs \cup INPUT_STRINGS
    /\ input_string = given
    /\ match = re_search(given)
    /\ heap = << >>
    /\ graph = Graph
    /\ gate = NAND(None, None)
    /\ gateLog = NoLog
    /\ last = NoCall
    /\ pc = "loop"
    /\ output = None
    /\ exc = ""
    /\ history = << >>
    /\ returned = << >>

\* One iteration of the `while match` loop, lines 265-289.
Reduce ==
    /\ pc = "loop"
    /\ match # NoMatch
    /\ LET t1 == match.groups[1]
           t2 == match.groups[2]
       IN  IF ~ int_accepts(t1) \/ ~ int_accepts(t2)
           THEN \* line 265: int(x) raises; Node(int(t1)) may exist already
                /\ pc' = "raised"
                /\ exc' = IntError
                /\ heap' = IF int_accepts(t1) THEN Node(heap, int(t1)).heap ELSE heap
                /\ UNCHANGED <<graph, gate, input_string, match, history>>
           ELSE LET f1 == Node(heap, int(t1))
                    f2 == Node(f1.heap, int(t2))
                    h  == f2.heap
                    s1 == get_node(graph, h, h[f1.ref])
                    s2 == get_node(graph, h, h[f2.ref])
                IN  \E n1 \in (IF s1 = {} THEN {f1.ref} ELSE s1),
                       n2 \in (IF s2 = {} THEN {f2.ref} ELSE s2) :
                       LET r == reduce(input_string, match, h, graph, n1, n2)
                       IN  /\ heap' = r.heap
                           /\ graph' = r.graph
                           /\ gate' = r.gate
                           /\ input_string' = r.input_string
                           /\ match' = IF r.err = "" THEN re_search(r.input_string)
                                       ELSE match
                           /\ exc' = r.err
                           /\ pc' = IF r.err = "" THEN "loop" ELSE "raised"
                           /\ history' =
                                 IF r.err # "" THEN history
                                 ELSE Append(history,
                                        [group  |-> group(input_string, match),
                                         groups |-> match.groups,
                                         gate   |-> r.gate])
    /\ UNCHANGED <<gateLog, last, given, output, returned>>

\* Lines 291-304, once `match` is None.
Finalize ==
    /\ pc = "loop"
    /\ match = NoMatch
    /\ LET r == finalize(input_string)
       IN  /\ output' = r.output
           /\ exc' = r.err
           /\ pc' = IF r.err = "" THEN "done" ELSE "raised"
    /\ UNCHANGED <<heap, graph, gate, gateLog, last, given, input_string, match,
                   history, returned>>

Next == Reduce \/ Finalize

Spec == Init /\ [][Next]_vars

(***************************************************************************)
(* The claims.                                                             *)
(***************************************************************************)
\* Bit i of x in two's complement (floor division keeps the sign bits).
Bit(x, i) == (x \div (2 ^ i)) % 2

RECURSIVE SumBits(_, _, _)
SumBits(a, b, i) ==
    IF i < 0 THEN 0 ELSE 2 ^ i * Bit(a, i) * Bit(b, i) + SumBits(a, b, i - 1)

\* The bitwise AND of two integers of magnitude at most 2^17, bit by bit:
\* bits 0..16 are the products of the operands' bits, and the result is
\* negative exactly when both operands are.
BitwiseAnd(a, b) ==
    SumBits(a, b, 16) - (IF a < 0 /\ b < 0 THEN 2 ^ 17 ELSE 0)

\* The widths the doubling sequence 4, 8, 16, ... takes for the magnitudes
\* the model reaches (below 2^16).
Widths == {4, 8, 16}

FirstWidth(m) ==
    CHOOSE w \in Widths :
        /\ 2 ^ w > m
        /\ \A u \in Widths : 2 ^ u > m => w <= u

\* C1: once the output of NAND(a, b) has been read, the output Node holds
\* 2^w - |~(a & b)|, w being the first of the widths 4, 8, 16, ... with
\* 2^w > |~(a & b)|, for negative inputs as well.
C1_NandValue ==
    gate._output # None =>
        LET a == heap[gate.input_a]
            b == heap[gate.input_b]
            m == abs(-BitwiseAnd(a, b) - 1)
        IN  heap[gate._output] = 2 ^ FirstWidth(m) - m

\* C1 witness: an output read for two negative inputs that need width 16.
C1_Witness ==
    /\ pc = "gate"
    /\ gate._output # None
    /\ heap[1] < 0 /\ heap[2] < 0
    /\ abs(invert(and_(heap[1], heap[2]))) >= 256
    /\ heap[gate._output] = 65536 - abs(invert(and_(heap[1], heap[2])))

\* C5: add_edge raises nothing and records input_a -> input_b whenever the
\* values of both gate inputs are held by stored vertices, also when the
\* gate's input Nodes are other instances than the stored ones.
C5_AddEdgeByValue ==
    (/\ last.op = "add_edge"
     /\ has_node(graph, heap, last.a)
     /\ has_node(graph, heap, last.b))
    => /\ last.err = ""
       /\ \E s \in DOMAIN graph._edges :
             /\ heap[s] = heap[last.a]
             /\ \E d \in graph._edges[s] : heap[d] = heap[last.b]

\* C6: no vertex's destination set holds two entries with the same value.
C6_NoDuplicateDestination ==
    \A s \in DOMAIN graph._edges :
        \A x \in graph._edges[s], y \in graph._edges[s] :
            heap[x] = heap[y] => x = y

\* Every recorded edge joins two values that are both vertices.
EdgesJoinVertices ==
    \A s \in DOMAIN graph._edges :
        /\ has_node(graph, heap, s)
        /\ \A d \in graph._edges[s] : has_node(graph, heap, d)

\* A call of add_edge whose gate has an input value no stored vertex holds
\* raises 'Nodes not present' and changes nothing.
RejectsAbsentEndpoint ==
    (/\ last'.op = "add_edge"
     /\ ~ (has_node(graph, heap, last'.a) /\ has_node(graph, heap, last'.b)))
    => /\ last'.err = "ValueError: Nodes not present in the Graph!"
       /\ graph' = graph

\* C7: add_edge with an input value that no stored vertex holds fails with
\* 'nodes not present', inserts no endpoint and leaves the vertex set and the
\* adjacency mapping unchanged; hence every recorded edge joins two values
\* that are both vertices.
C7_DanglingEdgeRejected ==
    [][RejectsAbsentEndpoint /\ EdgesJoinVertices']_vars

\* C7 witness: a rejected add_edge whose source is stored and whose
\* destination value is absent.
C7_Witness ==
    /\ last.op = "add_edge"
    /\ last.err = "ValueError: Nodes not present in the Graph!"
    /\ last.a \in graph._nodes
    /\ ~ has_node(graph, heap, last.b)

\* One call of add_node, by the value's presence before the call.
AddNodeContract ==
    last'.op = "add_node" =>
        IF has_node(graph, heap, last'.a)
        THEN /\ graph' = graph
             /\ last'.err = IF last'.ignore_errors
                            THEN "" ELSE "ValueError: Node already exists"
        ELSE /\ last'.err = ""
             /\ graph'._nodes = graph._nodes \cup {last'.a}
             /\ DOMAIN graph'._edges = DOMAIN graph._edges \cup {last'.a}
             /\ graph'._edges[last'.a] = {}
             /\ \A n \in DOMAIN graph._edges : graph'._edges[n] = graph._edges[n]

\* C8: add_node on a value already held (even by another instance) raises
\* 'Node already exists' when ignore_errors is False and returns silently when
\* it is True, the vertex set and the adjacency mapping unchanged either way;
\* on an absent value it adds the vertex with an empty destination set.
C8_AddNode == [][AddNodeContract]_vars

\* C8 witness: add_node of another instance of a stored value, silently
\* ignored, on a Graph that already has an edge.
C8_Witness ==
    /\ last.op = "add_node"
    /\ last.ignore_errors
    /\ last.err = ""
    /\ last.a \notin graph._nodes
    /\ has_node(graph, heap, last.a)
    /\ \E s \in DOMAIN graph._edges : graph._edges[s] # {}

\* C9: consecutive reads of NAND.output with no reset in between return the
\* same cached Node, computed at most once; reset leaves the inputs as they
\* were and empties the cache, and the read after it computes a new Node
\* holding the value read before the reset.
C9_Memoised ==
    LET reads == gateLog.reads
    IN  pc = "gate" =>
        /\ \A i \in DOMAIN reads : reads[i] # None /\ reads[i] = gate._output
        /\ Len(heap) - 2 <= gateLog.resets + 1
        /\ gate.input_a = 1 /\ gate.input_b = 2
        /\ <<heap[1], heap[2]>> = gateLog.inputs
        /\ (reads = << >> /\ gateLog.resets > 0) => gate._output = None
        /\ (reads # << >> /\ gateLog.prevRead # None) =>
              /\ reads[1] # gateLog.prevRead
              /\ heap[reads[1]] = heap[gateLog.prevRead]

\* C9 witness: two reads after a reset that followed a read.
C9_Witness ==
    /\ pc = "gate"
    /\ Len(gateLog.reads) >= 2
    /\ gateLog.resets >= 1
    /\ gateLog.prevRead # None

(***************************************************************************)
(* Texts the claims name.                                                  *)
(***************************************************************************)
Text_Nand12_3 == <<"!", "(", "1", ".", "2", ")", ".", "3">>

Text_15_3 == <<"1", "5", ".", "3">>

Text_TwoGroups ==
    <<"!", "(", "1", "0", ".", "2", "0", ")", ".",
      "!", "(", "3", "0", ".", "4", "0", ")">>

\* The residual operands of a buffer: its pieces between dots, when each is
\* a run of digits.
Residuals(x) ==
    LET pieces == split(x, ".")
    IN  IF \A i \in 1 .. Len(pieces) : int_accepts(pieces[i]) THEN pieces
        ELSE << >>

\* C2: when parse_input returns, a buffer of one dot-separated integer gives
\* that integer and a buffer of two gives their bitwise AND, with no
\* complement; '!(1.2).3' becomes '15.3' and returns 3.
C2_Finalisation ==
    /\ pc = "done" =>
          LET r == Residuals(input_string)
          IN  /\ Len(r) \in {1, 2}
              /\ Len(r) = 1 => output = int(r[1])
              /\ Len(r) = 2 => output = BitwiseAnd(int(r[1]), int(r[2]))
    /\ (given = Text_Nand12_3 /\ pc # "loop") =>
          /\ pc = "done"
          /\ input_string = Text_15_3
          /\ output = 3

\* C2 witness: '!(1.2).3' has returned from the buffer '15.3'.
C2_Witness ==
    /\ given = Text_Nand12_3
    /\ pc = "done"
    /\ input_string = Text_15_3
    /\ Len(history) = 1

\* C3: when the loop ends on a buffer of three or more residual operands,
\* parse_input raises InvalidInputError and nothing else.
C3_InvalidInputError ==
    (/\ pc # "loop"
     /\ match = NoMatch
     /\ Len(Residuals(input_string)) >= 3)
    => /\ pc = "raised"
       /\ exc = "InvalidInputError: Input is not in the expected format"

\* C4: the only failure that escapes parse_input is the one line 294 raises
\* for too many residual operands; a lookup miss, a duplicate node, a
\* dangling edge or a failure of int() never reaches the caller.
C4_OnlyInvalidInputEscapes ==
    pc = "raised" =>
        exc = InvalidInputError("Input is not in the expected format")

\* The values of the stored vertices, and the recorded edges by value.
VertexValues == {heap[n] : n \in graph._nodes}

EdgeValues ==
    UNION {{<<heap[s], heap[d]>> : d \in graph._edges[s]} :
             s \in DOMAIN graph._edges}

\* C10: when parse_input returns, the vertex values are the operand values
\* and the output values of the groups that were reduced, and the edges are
\* the pairs input_a -> input_b of those groups and nothing else (no edge
\* to a gate's output).  '!(10.20).!(30.40)' gives six vertices, the edges
\* 10->20 and 30->40, and the AND of the two outputs.
C10_GraphOfReducedGroups ==
    /\ pc = "done" =>
          LET H == 1 .. Len(history)
              a(i) == int(history[i].groups[1])
              b(i) == int(history[i].groups[2])
              m(i) == abs(-BitwiseAnd(a(i), b(i)) - 1)
              o(i) == 2 ^ FirstWidth(m(i)) - m(i)
          IN  /\ VertexValues = {a(i) : i \in H} \cup {b(i) : i \in H}
                                  \cup {o(i) : i \in H}
              /\ EdgeValues = {<<a(i), b(i)>> : i \in H}
    /\ (given = Text_TwoGroups /\ pc # "loop") =>
          /\ pc = "done"
          /\ VertexValues = {10, 20, 30, 40} \cup {15, 7}
          /\ Cardinality(graph._nodes) = 6
          /\ EdgeValues = {<<10, 20>>, <<30, 40>>}
          /\ output = BitwiseAnd(15, 7)

\* C10 witness: '!(10.20).!(30.40)' has returned after two reductions.
C10_Witness ==
    /\ given = Text_TwoGroups
    /\ pc = "done"
    /\ Len(history) = 2
    /\ Cardinality(graph._nodes) = 6

\* The number of characters c in x.
RECURSIVE CountChar(_, _)
CountChar(x, c) ==
    IF x = << >> THEN 0
    ELSE (IF x[1] = c THEN 1 ELSE 0) + CountChar(Tail(x), c)

\* The number of NAND groups in a buffer, resolved or not: the number of
\* group openers '!('.
NandGroups(x) ==
    Cardinality({i \in 1 .. Len(x) - 1 : x[i] = "!" /\ x[i + 1] = "("})

\* The number of occurrences of the non-empty text old in x, counted from the
\* left without overlap.
RECURSIVE Occurrences(_, _)
Occurrences(x, old) ==
    IF Len(x) < Len(old) THEN 0
    ELSE IF SubSeq(x, 1, Len(old)) = old
    THEN 1 + Occurrences(SubSeq(x, Len(old) + 1, Len(x)), old)
    ELSE Occurrences(Tail(x), old)

(***************************************************************************)
(* GraphOrParseSpec: a Graph driven by add_node and add_edge calls, or     *)
(* built by one call of parse_input.                                       *)
(***************************************************************************)
GraphOrParseInit == GraphInit \/ Init

GraphOrParseNext == GraphNext \/ Next

GraphOrParseSpec == GraphOrParseInit /\ [][GraphOrParseNext]_vars

(***************************************************************************)
(* DriverSpec: parse_input called several times in a row, each call after  *)
(* the one before it has returned.                                         *)
(***************************************************************************)
\* The driver's INPUT_STRINGS, and expressions that repeat a value or a
\* group.
DriverInputs ==
    INPUT_STRINGS
        \cup {Nand(<<"1">>, <<"1">>),
              Nand(<<"1">>, <<"2">>) \o <<".">> \o Nand(<<"1">>, <<"2">>),
              Nand(<<"1">>, <<"2">>) \o <<".">> \o Nand(<<"1">>, <<"1">>)}

DriverInit ==
    /\ given \in DriverInputs
    /\ Init

\* The next call of parse_input: the Graph of the call before was returned
\* to the caller, and line 257 builds a new one.  The Node instances of the
\* earlier calls stay allocated.
CallAgain ==
    /\ pc = "done"
    /\ Len(returned) + 1 < MaxCalls
    /\ returned' = Append(returned, graph)
    /\ \E x \in DriverInputs :
          /\ given' = x
          /\ input_string' = x
          /\ match' = re_search(x)
    /\ graph' = Graph
    /\ gate' = NAND(None, None)
    /\ pc' = "loop"
    /\ output' = None
    /\ exc' = ""
    /\ history' = << >>
    /\ UNCHANGED <<heap, gateLog, last>>

DriverNext == Reduce \/ Finalize \/ CallAgain

DriverSpec == DriverInit /\ [][DriverNext]_vars

\* A step that is one completed iteration of the loop.
Iteration == Len(history') = Len(history) + 1

\* C11: the loop terminates: it runs at most as many times as the input has
\* '!' characters, the number of NAND groups falling on every iteration, and
\* it ends by reaching finalisation (no match is left).
C11_LoopReachesFinalisation ==
    pc # "loop" =>
        /\ Len(history) <= CountChar(given, "!")
        /\ NandGroups(input_string) <= NandGroups(given) - Len(history)
        /\ match = NoMatch

Text_Twice ==
    <<"!", "(", "1", ".", "2", ")", ".", "!", "(", "1", ".", "2", ")">>

Text_15_15 == <<"1", "5", ".", "1", "5">>

\* C12 as stated: every iteration leaves exactly one NAND group fewer in the
\* buffer, also when the matched text occurs more than once.
C12_ExactlyOneGroup ==
    [][Iteration => NandGroups(input_string') = NandGroups(input_string) - 1]_vars

\* C12, amended: every iteration eliminates every occurrence of the matched
\* group text, so the number of NAND groups falls by the number of
\* occurrences of that text, which is at least one.
C12_EveryOccurrence ==
    [][Iteration =>
         LET n == Occurrences(input_string, group(input_string, match))
         IN  /\ n >= 1
             /\ NandGroups(input_string') = NandGroups(input_string) - n
             /\ Occurrences(input_string', group(input_string, match)) = 0]_vars

\* C12 witness: '!(1.2).!(1.2)' after its only iteration, both groups gone.
C12_Witness ==
    /\ given = Text_Twice
    /\ Len(history) = 1
    /\ input_string = Text_15_15
    /\ NandGroups(input_string) = 0

\* C13: after each reduction step both input Nodes of the gate built in that
\* step are stored vertices (the instances in graph.nodes themselves), also
\* when both operands have the same value, so every edge endpoint is a stored
\* vertex instance.
C13_OperandsAreStoredVertices ==
    (pc \in {"loop", "done"} /\ Len(history) >= 1) =>
        /\ gate.input_a \in graph._nodes
        /\ gate.input_b \in graph._nodes
        /\ \A n \in DOMAIN graph._edges :
               n \in graph._nodes /\ graph._edges[n] \subseteq graph._nodes

\* A plain integer literal: one or more decimal digits.
IsLiteral(t) == t # << >> /\ \A i \in 1 .. Len(t) : IsDigit(t[i])

\* A reducible group starts at position i of x: '!(', a literal, '.', a
\* literal, ')'.
Reducible(x, i) ==
    \E k \in 1 .. Len(x), m \in 1 .. Len(x) :
        /\ i + 3 + k + m <= Len(x)
        /\ x[i] = "!" /\ x[i + 1] = "("
        /\ IsLiteral(SubSeq(x, i + 2, i + 1 + k))
        /\ x[i + 2 + k] = "."
        /\ IsLiteral(SubSeq(x, i + 3 + k, i + 2 + k + m))
        /\ x[i + 3 + k + m] = ")"

WellFormedInputs == NestedInputs \cup FlatInputs \cup INPUT_STRINGS

Text_Nested == <<"!", "(", "!", "(", "1", ".", "2", ")", ".", "1", ")">>

\* C14: groups are reduced innermost-first.  In every iteration that reduces
\* a group both operands of the matched text are plain integer literals, so
\* no group is nested in it any more (every inner group was substituted by
\* its output in an earlier iteration), and no reducible group starts to the
\* left of it; in a well-formed expression the matched text is the leftmost
\* reducible group.
C14_InnermostLeftmostFirst ==
    [][Iteration =>
         /\ IsLiteral(match.groups[1]) /\ IsLiteral(match.groups[2])
         /\ NandGroups(group(input_string, match)) = 1
         /\ \A j \in 1 .. Len(input_string) :
                Reducible(input_string, j) => match.start <= j
         /\ given \in WellFormedInputs =>
                Reducible(input_string, match.start)]_vars

\* C14 witness: '!(!(1.2).1)' reduced the inner group first and the outer
\* group, over the inner output 15, second.
C14_Witness ==
    /\ given = Text_Nested
    /\ Len(history) = 2
    /\ history[1].group = <<"!", "(", "1", ".", "2", ")">>
    /\ history[2].group = <<"!", "(", "1", "5", ".", "1", ")">>

\* The failures of add_edge.
AddEdgeErrors == {"ValueError: Nodes not present in the Graph!", "KeyError"}

\* C15: the dangling-edge failure is unreachable inside parse_input.  In a
\* step whose matched operands parse as integers the add_edge call finds
\* both endpoints present: it raises neither 'Nodes not present in the
\* Graph!' nor KeyError, the iteration completes, and the edge is recorded
\* under the source.
C15_NoDanglingEdgeFailure ==
    [][(pc = "loop" /\ match # NoMatch
            /\ int_accepts(match.groups[1]) /\ int_accepts(match.groups[2])) =>
         /\ exc' \notin AddEdgeErrors
         /\ exc' = "" /\ pc' = "loop" /\ Iteration
         /\ has_node(graph', heap', gate'.input_a)
         /\ has_node(graph', heap', gate'.input_b)
         /\ gate'.input_a \in DOMAIN graph'._edges
         /\ gate'.input_b \in graph'._edges[gate'.input_a]]_vars

\* C15 witness: a second iteration has added its edge between a vertex that
\* was already stored and a fresh one.
C15_Witness ==
    /\ Len(history) = 2
    /\ exc = ""
    /\ gate.input_a \in DOMAIN graph._edges
    /\ gate.input_b \in graph._edges[gate.input_a]
    /\ Cardinality(graph._nodes) >= 4

\* The values the instances of the heap hold.
HeapValues == {heap[i] : i \in DOMAIN heap}

\* C16: no two stored vertices have the same value, whatever add_node and
\* add_edge calls (with either ignore_errors setting) or parse_input
\* reductions built the Graph, and get_node(v) yields the one stored vertex
\* of value v, or fails when there is none.
C16_ValueDeduplication ==
    /\ \A a \in graph._nodes, b \in graph._nodes :
           heap[a] = heap[b] => a = b
    /\ \A v \in HeapValues \cup {None} :
           IF \E n \in graph._nodes : heap[n] = v
           THEN \E n \in graph._nodes :
                    heap[n] = v /\ get_node(graph, heap, v) = {n}
           ELSE get_node(graph, heap, v) = {}

\* C16 witness: add_node was called, with ignore_errors set, for a second
\* instance of a value already stored, and every value is stored once.
C16_Witness ==
    /\ pc = "graph"
    /\ last.op = "add_node" /\ last.ignore_errors /\ last.err = ""
    /\ last.a \notin graph._nodes
    /\ Cardinality(graph._nodes) = MaxVal
    /\ \E n \in DOMAIN graph._edges : graph._edges[n] # {}

\* Every vertex and every destination the Graph holds is kept by the step.
Monotone ==
    /\ graph._nodes \subseteq graph'._nodes
    /\ DOMAIN graph._edges \subseteq DOMAIN graph'._edges
    /\ \A n \in DOMAIN graph._edges : graph._edges[n] \subseteq graph'._edges[n]

\* The instances a Graph refers to: vertices, sources and destinations.
Instances(g) ==
    g._nodes \cup DOMAIN g._edges \cup UNION {g._edges[n] : n \in DOMAIN g._edges}

\* The Graph of the running call shares no instance with a Graph returned by
\* an earlier call, and is empty until the first iteration.
FreshGraph ==
    /\ (pc = "loop" /\ history = << >>) => graph = Graph
    /\ \A i \in 1 .. Len(returned) :
           Instances(returned[i]) \cap Instances(graph) = {}

\* C17: during one call the vertex set and every destination set only gain
\* elements, and every call starts from an empty Graph that shares no
\* vertices or edges with the Graph of an earlier call.
C17_MonotoneFreshGraph ==
    /\ []FreshGraph
    /\ [][IF Len(returned') = Len(returned) + 1
          THEN graph' = Graph
          ELSE Monotone]_vars

\* C17 witness: a second call has run two iterations over the same values
\* as the call before it, whose Graph was returned with vertices and edges.
C17_Witness ==
    /\ Len(returned) = 1
    /\ Len(history) = 2
    /\ Cardinality(returned[1]._nodes) >= 3
    /\ \E n \in DOMAIN returned[1]._edges : returned[1]._edges[n] # {}
    /\ \E a \in returned[1]._nodes, b \in graph._nodes : heap[a] = heap[b]
    /\ \E n \in DOMAIN graph._edges : graph._edges[n] # {}

\* C18: the output value of a gate is at least 1 for every pair of integer
\* inputs (NAND(15, 15) is 240, not 0), so the text substituted for a reduced
\* group, str(value), is a non-empty unsigned decimal literal.
C18_OutputAtLeastOne ==
    gate._output # None =>
        LET value == heap[gate._output]
        IN  /\ value >= 1
            /\ IsLiteral(str(value))
            /\ int(str(value)) = value
            /\ (heap[gate.input_a] = 15 /\ heap[gate.input_b] = 15)
                   => value = 240

\* C18 witness: the output of NAND(15, 15) has been read and is 240.
C18_Witness ==
    /\ pc = "gate"
    /\ gate._output # None
    /\ heap[gate.input_a] = 15 /\ heap[gate.input_b] = 15
    /\ str(heap[gate._output]) = <<"2", "4", "0">>

\* The positions of the '.' characters of x that lie inside no parentheses.
TopDots(x) ==
    {p \in 1 .. Len(x) :
        /\ x[p] = "."
        /\ Cardinality({q \in 1 .. p - 1 : x[q] = "("})
               = Cardinality({q \in 1 .. p - 1 : x[q] = ")"})}

\* x is a term of the expression grammar: a literal, or '!(' term '.' term ')'.
RECURSIVE IsTerm(_)
IsTerm(x) ==
    \/ IsLiteral(x)
    \/ /\ Len(x) >= 6
       /\ x[1] = "!" /\ x[2] = "(" /\ x[Len(x)] = ")"
       /\ LET inner == SubSeq(x, 3, Len(x) - 1)
              dots  == TopDots(inner)
          IN  /\ Cardinality(dots) = 1
              /\ LET p == CHOOSE d \in dots : TRUE
                 IN  /\ IsTerm(SubSeq(inner, 1, p - 1))
                     /\ IsTerm(SubSeq(inner, p + 1, Len(inner)))

\* A well-formed expression: one term, or two terms joined by '.'.
WellFormed(x) ==
    LET dots == TopDots(x)
    IN  \/ dots = {} /\ IsTerm(x)
        \/ /\ Cardinality(dots) = 1
           /\ LET p == CHOOSE d \in dots : TRUE
              IN  /\ IsTerm(SubSeq(x, 1, p - 1))
                  /\ IsTerm(SubSeq(x, p + 1, Len(x)))

\* The Gate formula on two integers.
NandValue(a, b) ==
    LET m == abs(-BitwiseAnd(a, b) - 1)
    IN  2 ^ FirstWidth(m) - m

\* The value of a term, by recursion over its tree.
RECURSIVE EvalTerm(_)
EvalTerm(x) ==
    IF IsLiteral(x) THEN int(x)
    ELSE LET inner == SubSeq(x, 3, Len(x) - 1)
             p     == CHOOSE d \in TopDots(inner) : TRUE
         IN  NandValue(EvalTerm(SubSeq(inner, 1, p - 1)),
                       EvalTerm(SubSeq(inner, p + 1, Len(inner))))

\* The value of a well-formed expression: the top-level '.' is bitwise AND.
Evaluate(x) ==
    LET dots == TopDots(x)
    IN  IF dots = {} THEN EvalTerm(x)
        ELSE LET p == CHOOSE d \in dots : TRUE
             IN  BitwiseAnd(EvalTerm(SubSeq(x, 1, p - 1)),
                            EvalTerm(SubSeq(x, p + 1, Len(x))))

Text_NestedTwice ==
    <<"!", "(", "!", "(", "1", ".", "2", ")", ".",
      "!", "(", "1", ".", "2", ")", ")">>

\* C19: for a well-formed expression of at most two top-level terms,
\* parse_input returns, and what it returns is the value of the expression
\* tree: every NAND node by the Gate formula, the top-level '.' as bitwise
\* AND, whatever order the groups were substituted in and also when equal
\* group texts were substituted together.
C19_LoopEqualsTreeEvaluation ==
    (WellFormed(given) /\ pc # "loop") =>
        /\ pc = "done"
        /\ output = Evaluate(given)

\* C19 witness: '!(!(1.2).!(1.2))' has returned 240 after two iterations,
\* the two inner groups substituted together.
C19_Witness ==
    /\ given = Text_NestedTwice
    /\ WellFormed(given)
    /\ pc = "done"
    /\ Len(history) = 2
    /\ output = 240
    /\ Evaluate(given) = 240

=============================================================================
